---- MODULE Spec2Model ----
(***************************************************************************)
(* Model of the Sair rematerialization transform                            *)
(* (src/transforms/rematerialize.cc) and of the sequence analysis declared  *)
(* in sequence.h (src/unnamed/part_000).                                    *)
(*                                                                          *)
(* Dimension indices, result indices and loop positions are 0-based as in   *)
(* the C++ code; TLA+ sequences are 1-based, so dimension d of a domain or  *)
(* a shape is element d + 1 of the sequence that models it.                 *)
(***************************************************************************)
EXTENDS Integers, Sequences, FiniteSets, TLC

(***************************************************************************)
(* Bounds of the explored programs.                                         *)
(***************************************************************************)
\* dimensions (parallel plus reduction) of the operation under rewrite
MaxDims == 2
\* results of a map / map_reduce operation
MaxResults == 2
\* dimensions of the operation that materializes the loops
MaxDefDims == 3

\* largest explicit sequence number an operation may carry
MaxHint == 1
\* calls of AssignInferred / Insert / Erase made on one analysis
MaxCalls == 3
\* largest sequence number of the maps AllOps() is iterated on
MaxKey == 2

\* loop names that occur in loop_nest attributes
Names == {"i", "j"}

VARIABLES
  body,           \* program order of the live operations (sequence of ids)
  ops,            \* id -> operation record, for every live operation
  main_loops,     \* loop name -> LoopBounds, as collected by the walk
  pending,        \* pending_rematerializations still to be processed
  status,         \* progress / outcome of RematerializeInProgram
  orig,           \* history: the operations of the program before the pass
  done,           \* history: ids of the operations that Rematerialize replaced
  last,           \* history: the latest call of Rematerialize
  hints,          \* compute op -> its "sequence" attribute (-1: none)
  edges,          \* <<a, b>>: compute op b reads a result of compute op a
  fby,            \* the sair.fby of the program, if any (user = 0: none)
  sequenced_ops_, \* SequenceAnalysis::sequenced_ops_, in map iteration order
  analysis,       \* "none", or what SequenceAnalysis::Create returned
  calls,          \* calls still allowed on the analysis
  hist,           \* history: the latest calls and what they started from
  traversal       \* a loop over AllOps(): the iterator and what it visited

remat_vars == <<body, ops, main_loops, pending, status, orig, done, last>>
seq_vars == <<hints, edges, fby, sequenced_ops_, analysis, calls, hist, traversal>>
vars == <<remat_vars, seq_vars>>

(***************************************************************************)
(* Helpers on sequences.                                                    *)
(***************************************************************************)
Range(s) == {s[x] : x \in DOMAIN s}

Indices(n) == [x \in 1..n |-> x]

\* all sequences of length n over S
SeqsOfLen(S, n) == [1..n -> S]

Injective(s) == \A x, y \in DOMAIN s : x # y => s[x] # s[y]

\* the elements of a finite set of integers, in increasing order
SortedSeq(S) ==
  [x \in 1..Cardinality(S) |->
     CHOOSE v \in S : Cardinality({w \in S : w < v}) = x - 1]

(***************************************************************************)
(* Attributes.                                                              *)
(***************************************************************************)
\* AccessPatternAttr::GetIdentity(ctx, n): dimension d reads dimension d.
GetIdentity(n) == [x \in 1..n |-> x - 1]

\* Variant of ShiftRight that shifts every dimension.
ShiftRightAll(pattern, offset, start_from) ==
  [x \in DOMAIN pattern |-> pattern[x] + offset]

\* AccessPatternAttr::ShiftRight(offset, start_from): every accessed dimension
\* at or past start_from moves right by offset.
ShiftRight(pattern, offset, start_from) ==
  [x \in DOMAIN pattern |->
     IF pattern[x] >= start_from THEN pattern[x] + offset ELSE pattern[x]]

\* DomainShapeDim::DependencyMask(): the set of dimensions a dimension's
\* dependency pattern names.
DependencyMask(dependency_pattern) == Range(dependency_pattern)

\* DomainShapeAttr::Prefix(n)
Prefix(shape, n) == SubSeq(shape, 1, n)

\* A loop_nest entry with a concrete iterator.
ConcreteLoop(name, dim, step) ==
  [name |-> name, remat |-> FALSE, dim |-> dim, step |-> step]

\* A loop_nest entry whose iterator is the rematerialize marker.
RematLoop(name) == [name |-> name, remat |-> TRUE, dim |-> 0, step |-> 0]

\* SairOp::domain(): parallel dimensions, then reduction (map_reduce) or
\* projection (proj_any) dimensions.
Domain(op) == op.parallel_domain \o op.reduction_domain

\* ids of the operations Rematerialize creates for operation o
NewOpId(o) == 10 + o
ProjId(o, i) == 100 + (10 * o) + i

(***************************************************************************)
(* LoopBounds collection: the walk of RematerializeInProgram.               *)
(***************************************************************************)
\* llvm::SmallBitVector::set_bits(): the set bits in increasing order.
SetBits(mask) == SortedSeq(mask)

\* The names pushed to depends_on for the loop_nest entry at index x of op:
\* the loop_nest entries found at the indices of the set bits of the
\* dependency mask of the dimension the entry is bound to.
DependsOn(op, x) ==
  LET dependency == DependencyMask(op.shape[op.loop_nest[x].dim + 1])
      bits == SetBits(dependency)
  IN [b \in 1..Len(bits) |-> op.loop_nest[bits[b] + 1].name]

\* LoopBounds(range, step, dependencies) for the loop_nest entry at index x.
LoopBounds(op, x) ==
  [range |-> Domain(op)[op.loop_nest[x].dim + 1],
   step |-> op.loop_nest[x].step,
   dependent_on |-> DependsOn(op, x)]

\* loop_attr_range[bit_idx] reads past the end of the loop nest for some
\* concrete entry of some operation of the program.
WalkOutOfBounds(b, o) ==
  \E y \in DOMAIN b : \E x \in DOMAIN o[b[y]].loop_nest :
    LET op == o[b[y]] IN
      /\ ~op.loop_nest[x].remat
      /\ \E bit \in DependencyMask(op.shape[op.loop_nest[x].dim + 1]) :
           bit >= Len(op.loop_nest)

\* The name has a concrete iterator in the operation at position y of b.
ConcreteAt(b, o, name, y) ==
  \E x \in DOMAIN o[b[y]].loop_nest :
    o[b[y]].loop_nest[x].name = name /\ ~o[b[y]].loop_nest[x].remat

\* main_loops after the walk: try_emplace keeps, for every name, the bounds of
\* the first concrete entry met in program order.
CollectMainLoops(b, o) ==
  LET recorded == {name \in Names : \E y \in DOMAIN b : ConcreteAt(b, o, name, y)}
      FirstOp(name) ==
        b[CHOOSE y \in DOMAIN b :
            /\ ConcreteAt(b, o, name, y)
            /\ \A z \in 1..(y - 1) : ~ConcreteAt(b, o, name, z)]
      FirstEntry(name) ==
        LET ln == o[FirstOp(name)].loop_nest IN
          CHOOSE x \in DOMAIN ln :
            /\ ln[x].name = name /\ ~ln[x].remat
            /\ \A z \in 1..(x - 1) : ~(ln[z].name = name /\ ~ln[z].remat)
  IN [name \in recorded |-> LoopBounds(o[FirstOp(name)], FirstEntry(name))]

\* pending_rematerializations after the walk.
CollectPending(b, o) ==
  {b[y] : y \in {z \in DOMAIN b :
                   \E x \in DOMAIN o[b[z]].loop_nest : o[b[z]].loop_nest[x].remat}}

(***************************************************************************)
(* Rematerialize(op, main_loops), as operators over an operation record op  *)
(* and the collected bounds ml.                                             *)
(***************************************************************************)
\* The kinds the TypeSwitch of Rematerialize and ParallelDomain handle.
SupportedKinds == {"copy", "map", "map_reduce"}

\* ParallelDomain(op); any other kind reaches llvm_unreachable.
ParallelDomain(op) ==
  CASE op.kind \in {"copy", "map"} -> Domain(op)
    [] op.kind = "map_reduce" -> op.parallel_domain

\* `loops`: the positions of the loop_nest entries to rematerialize.
Loops(op) ==
  SelectSeq(Indices(Len(op.loop_nest)), LAMBDA x : op.loop_nest[x].remat)

\* main_loops.find(loop.name()) == main_loops.end() for some pending loop.
MissingBounds(op, ml) ==
  \E x \in Range(Loops(op)) : op.loop_nest[x].name \notin DOMAIN ml

\* loop_nest_array after the first sweep: materialized entries at or past the
\* parallel boundary are shifted by num_remat, pending entries are bound to
\* position++ (starting at num_parallel_dims) with the step of their bounds.
LoopNestArray(op, ml) ==
  LET ln == op.loop_nest
      num_parallel_dims == Len(ParallelDomain(op))
      num_remat == Len(Loops(op))
      position(x) == num_parallel_dims + Cardinality({z \in 1..(x - 1) : ln[z].remat})
  IN [x \in 1..Len(ln) |->
        IF ~ln[x].remat
          THEN IF ln[x].dim >= num_parallel_dims
                 THEN ConcreteLoop(ln[x].name, ln[x].dim + num_remat, ln[x].step)
                 ELSE ln[x]
          ELSE ConcreteLoop(ln[x].name, position(x), ml[ln[x].name].step)]

\* Variant of ExtraDomain that lists the ranges in reverse loop_nest order.
ExtraDomainReversed(op, ml) ==
  LET loops == Loops(op)
  IN [m \in 1..Len(loops) |-> ml[op.loop_nest[loops[Len(loops) + 1 - m]].name].range]

\* extra_domain: the ranges of the pending loops, in loop_nest order.
ExtraDomain(op, ml) ==
  LET loops == Loops(op)
  IN [m \in 1..Len(loops) |-> ml[op.loop_nest[loops[m]].name].range]

\* llvm::find_if over loop_nest_array by name: index of the first entry with
\* that name, 0 for end().
FindLoop(loop_nest_array, name) ==
  IF \E x \in DOMAIN loop_nest_array : loop_nest_array[x].name = name
    THEN CHOOSE x \in DOMAIN loop_nest_array :
           /\ loop_nest_array[x].name = name
           /\ \A z \in 1..(x - 1) : loop_nest_array[z].name # name
    ELSE 0

\* Some dependee of a pending loop's bounds is not in loop_nest_array.
MissingDependency(op, ml) ==
  \E x \in Range(Loops(op)) :
    \E dependee \in Range(ml[op.loop_nest[x].name].dependent_on) :
      FindLoop(LoopNestArray(op, ml), dependee) = 0

\* Variant of DependencyPattern that reads the dimensions of the dependees
\* from the loop nest as it was before the rewrite.
DependencyPatternStale(op, ml, loop_idx) ==
  LET dependent_on == ml[op.loop_nest[loop_idx].name].dependent_on
  IN [x \in 1..Len(dependent_on) |->
        op.loop_nest[FindLoop(op.loop_nest, dependent_on[x])].dim]

\* The dependency pattern of the dimension inserted for the pending loop at
\* loop_idx: the dimensions the dependees have in loop_nest_array.
DependencyPattern(op, ml, loop_idx) ==
  LET loop_nest_array == LoopNestArray(op, ml)
      dependent_on == ml[op.loop_nest[loop_idx].name].dependent_on
  IN [x \in 1..Len(dependent_on) |->
        loop_nest_array[FindLoop(loop_nest_array, dependent_on[x])].dim]

\* domain_shape_dims: parallel dimensions as they were, one dimension per
\* pending loop, then the trailing dimensions shifted by num_remat.
DomainShapeDims(op, ml) ==
  LET num_parallel_dims == Len(ParallelDomain(op))
      loops == Loops(op)
      num_remat == Len(loops)
      num_orig_dims == Len(op.shape)
  IN SubSeq(op.shape, 1, num_parallel_dims)
       \o [m \in 1..num_remat |-> DependencyPattern(op, ml, loops[m])]
       \o [t \in 1..(num_orig_dims - num_parallel_dims) |->
             ShiftRight(op.shape[num_parallel_dims + t], num_remat, num_parallel_dims)]

\* AdaptTypesToShape: the same element types over the given shape.
AdaptTypesToShape(types, shape) ==
  [r \in 1..Len(types) |-> [shape |-> shape, elem |-> types[r].elem]]

\* AdaptAccessPatterns(access_pattern_array, insert_pos, num_dims)
AdaptAccessPatterns(inputs, insert_pos, num_dims) ==
  [x \in 1..Len(inputs) |->
     [inputs[x] EXCEPT !.pattern = ShiftRight(@, num_dims, insert_pos)]]

\* TakeBodyAdjustArguments: num block arguments of index type inserted at pos.
TakeBodyAdjustArguments(source_body, pos, num) ==
  SubSeq(source_body, 1, pos) \o [x \in 1..num |-> "index"]
    \o SubSeq(source_body, pos + 1, Len(source_body))

\* RecreateOp for the three supported kinds.
RecreateOp(op, result_types, extra_domain, loop_nest_attr, domain_shape) ==
  CASE op.kind = "copy" ->
         [op EXCEPT !.parallel_domain = Domain(op) \o extra_domain,
                    !.shape = domain_shape,
                    !.loop_nest = loop_nest_attr,
                    !.results = result_types]
    [] op.kind = "map" ->
         [op EXCEPT !.parallel_domain = Domain(op) \o extra_domain,
                    !.shape = domain_shape,
                    !.loop_nest = loop_nest_attr,
                    !.results = result_types,
                    !.body = TakeBodyAdjustArguments(op.body, Len(Domain(op)),
                                                     Len(extra_domain))]
    [] op.kind = "map_reduce" ->
         [op EXCEPT !.parallel_domain = op.parallel_domain \o extra_domain,
                    !.inputs = AdaptAccessPatterns(op.inputs, Len(op.parallel_domain),
                                                   Len(extra_domain)),
                    !.shape = domain_shape,
                    !.loop_nest = loop_nest_attr,
                    !.results = result_types,
                    !.body = TakeBodyAdjustArguments(op.body, Len(op.parallel_domain),
                                                     Len(extra_domain))]

\* The replacement operation built for op.
NewOperation(op, ml) ==
  LET domain_shape == DomainShapeDims(op, ml)
      result_shape == Prefix(domain_shape, Len(ParallelDomain(op)) + Len(Loops(op)))
  IN RecreateOp(op, AdaptTypesToShape(op.results, result_shape), ExtraDomain(op, ml),
                LoopNestArray(op, ml), domain_shape)

\* The SairProjAnyOp created for result i of op (operation id o): it keeps the
\* parallel domain, projects extra_domain out of result i of the replacement
\* and has the type of the original result.
ProjOp(op, ml, o, i) ==
  LET new_operation == NewOperation(op, ml)
  IN [kind |-> "proj_any",
      parallel_domain |-> ParallelDomain(op),
      reduction_domain |-> ExtraDomain(op, ml),
      shape |-> new_operation.results[i + 1].shape,
      loop_nest |-> <<>>,
      inputs |-> <<[value |-> <<NewOpId(o), i>>,
                    pattern |-> GetIdentity(Len(ParallelDomain(op)) + Len(Loops(op)))]>>,
      results |-> <<op.results[i + 1]>>,
      memory_space |-> <<op.memory_space[i + 1]>>,
      body |-> <<>>]

\* proj_op.SetMemorySpace(i, memory_space) names result i of an operation that
\* has a single result: the index is past its results for every annotated
\* result i >= 1 of op.
SetMemorySpaceOutOfRange(op) ==
  \E i \in 1..(Len(op.results) - 1) : op.memory_space[i + 1] # 0

\* Variant of ReplaceAllUsesWith that redirects every use to the projection of
\* result 0.
ReplaceAllUsesWithFirst(o_map, o) ==
  LET Redirect(input) ==
        IF input.value[1] = o
          THEN [value |-> <<ProjId(o, 0), 0>>, pattern |-> input.pattern]
          ELSE input
  IN [q \in DOMAIN o_map |->
        [o_map[q] EXCEPT !.inputs = [x \in 1..Len(o_map[q].inputs) |->
                                       Redirect(o_map[q].inputs[x])]]]

\* Variant of ReplaceAllUsesWith that leaves the operands of replacement
\* operations as they are.
ReplaceAllUsesWithInOriginals(o_map, o) ==
  LET Redirect(input) ==
        IF input.value[1] = o
          THEN [value |-> <<ProjId(o, input.value[2]), 0>>, pattern |-> input.pattern]
          ELSE input
  IN [q \in DOMAIN o_map |->
        IF q >= NewOpId(0) /\ q < ProjId(0, 0) THEN o_map[q]
        ELSE [o_map[q] EXCEPT !.inputs = [x \in 1..Len(o_map[q].inputs) |->
                                            Redirect(o_map[q].inputs[x])]]]

\* orig_result.replaceAllUsesWith(proj_op.getResult()) for every result of o.
ReplaceAllUsesWith(o_map, o) ==
  LET Redirect(input) ==
        IF input.value[1] = o
          THEN [value |-> <<ProjId(o, input.value[2]), 0>>, pattern |-> input.pattern]
          ELSE input
  IN [q \in DOMAIN o_map |->
        [o_map[q] EXCEPT !.inputs = [x \in 1..Len(o_map[q].inputs) |->
                                       Redirect(o_map[q].inputs[x])]]]

\* The operations of the program once Rematerialize has replaced o: the
\* replacement and one projection per result are added, the uses of o are
\* redirected and o is erased.
RematerializedOps(o_map, ml, o) ==
  LET op == o_map[o]
      created == {NewOpId(o)} \cup {ProjId(o, i) : i \in 0..(Len(op.results) - 1)}
      kept == DOMAIN o_map \ {o}
      with_new == [q \in kept \cup created |->
                     IF q \in kept THEN o_map[q]
                     ELSE IF q = NewOpId(o) THEN NewOperation(op, ml)
                     ELSE ProjOp(op, ml, o, q - ProjId(o, 0))]
  IN ReplaceAllUsesWith(with_new, o)

\* builder.setInsertionPoint(op): the replacement and the projections take the
\* place of o in program order.
RematerializedBody(b, o_map, o) ==
  LET y == CHOOSE z \in DOMAIN b : b[z] = o
  IN SubSeq(b, 1, y - 1)
       \o <<NewOpId(o)>>
       \o [i \in 1..Len(o_map[o].results) |-> ProjId(o, i - 1)]
       \o SubSeq(b, y + 1, Len(b))

(***************************************************************************)
(* SequenceAnalysis.  The compute operations of the analysed program are    *)
(* SeqOps, numbered in program order; NewOp is an operation another pass    *)
(* creates and inserts.  The program has at most one sair.fby, node Fby,    *)
(* with operands init (0: not produced by a compute operation) and value    *)
(* (the prior-iteration read), and one user.                                *)
(***************************************************************************)
SeqOps == {1, 2, 3}
NewOp == 4
Fby == 9
NoFby == [init |-> 0, value |-> 0, user |-> 0]

\* No loop over AllOps() has started.
NoIter == [state |-> "idle", pass |-> 0]

\* The state of the sequence part while no analysis is under study.
NoSequenceAnalysis ==
  /\ hints = <<>>
  /\ edges = {}
  /\ fby = NoFby
  /\ sequenced_ops_ = <<>>
  /\ analysis = "none"
  /\ calls = 0
  /\ hist = [call |-> "none"]
  /\ traversal = NoIter

\* MapType = std::multimap<int64_t, ComputeOp>: emplace keeps the entries in
\* increasing key order and puts a new entry after the entries of equal key.

\* Variant of MultimapInsert for a map ordered by decreasing key.
MultimapInsertDescending(m, key, op) ==
  LET n == Cardinality({x \in DOMAIN m : m[x].key >= key})
  IN SubSeq(m, 1, n) \o <<[key |-> key, op |-> op]>> \o SubSeq(m, n + 1, Len(m))

MultimapInsert(m, key, op) ==
  LET n == Cardinality({x \in DOMAIN m : m[x].key <= key})
  IN SubSeq(m, 1, n) \o <<[key |-> key, op |-> op]>> \o SubSeq(m, n + 1, Len(m))

\* Ops(): the operations in map iteration order.
Ops(m) == [x \in 1..Len(m) |-> m[x].op]

\* Variant of Producers that also follows the prior-iteration read of the fby.
ProducersThroughValue(op, e, f) ==
  {a \in SeqOps : <<a, op>> \in e}
    \cup (IF f.user = op /\ f.init # 0 THEN {f.init} ELSE {})
    \cup (IF f.user = op THEN {f.value} ELSE {})

\* The compute operations whose results op reads, directly or through the
\* init operand of the fby it uses; the prior-iteration read of a fby is cut.
Producers(op, e, f) ==
  {a \in SeqOps : <<a, op>> \in e}
    \cup (IF f.user = op /\ f.init # 0 THEN {f.init} ELSE {})

\* Everything reachable from S along producer edges.
RECURSIVE TransitiveProducers(_, _, _)
TransitiveProducers(S, e, f) ==
  LET T == S \cup UNION {Producers(a, e, f) : a \in S}
  IN IF T = S THEN S ELSE TransitiveProducers(T, e, f)

\* Init fails: a use-def cycle between compute operations that does not pass
\* through the prior-iteration read of a fby.
HasUseDefCycle(e, f) ==
  \E op \in SeqOps : op \in TransitiveProducers(Producers(op, e, f), e, f)

\* The explicitly sequenced operations by increasing sequence attribute,
\* program order among equal attributes.
RECURSIVE InitialSequence(_, _)
InitialSequence(h, n) ==
  IF n = 0 THEN <<>>
  ELSE IF h[n] # -1 THEN MultimapInsert(InitialSequence(h, n - 1), h[n], n)
  ELSE InitialSequence(h, n - 1)

\* The traversal roots: explicitly sequenced operations first, then the
\* operations without a sequence attribute in program order.
Roots(h) ==
  Ops(InitialSequence(h, Cardinality(SeqOps)))
    \o SortedSeq({op \in SeqOps : h[op] = -1})

\* Depth-first traversal: an operation is placed after its producers.
RECURSIVE Visit(_, _, _, _)
RECURSIVE VisitAll(_, _, _, _)
Visit(op, placed, e, f) ==
  IF op \in Range(placed) THEN placed
  ELSE Append(VisitAll(SortedSeq(Producers(op, e, f)), placed, e, f), op)

VisitAll(todo, placed, e, f) ==
  IF todo = <<>> THEN placed
  ELSE VisitAll(Tail(todo), Visit(Head(todo), placed, e, f), e, f)

\* The first n operations of order under the sequence numbers 0..n-1.
RECURSIVE Numbered(_, _)
Numbered(order, n) ==
  IF n = 0 THEN <<>> ELSE MultimapInsert(Numbered(order, n - 1), n - 1, order[n])

\* ComputeDefaultSequence: sequenced_ops_ for an acyclic program.
ComputeDefaultSequence(h, e, f) ==
  LET order == VisitAll(Roots(h), <<>>, e, f)
  IN Numbered(order, Len(order))

\* FindSequencedOp: the index of op's entry, 0 for end().
FindSequencedOp(m, op) ==
  IF \E x \in DOMAIN m : m[x].op = op
    THEN CHOOSE x \in DOMAIN m : m[x].op = op
    ELSE 0

\* ExplicitSequenceNumber(op)
ExplicitSequenceNumber(m, op) == m[FindSequencedOp(m, op)].key

\* IsBefore / IsAfter between two compute operations: strict comparison of
\* their positions in the order.
IsBefore(m, first, second) == FindSequencedOp(m, first) < FindSequencedOp(m, second)
IsAfter(m, first, second) == FindSequencedOp(m, first) > FindSequencedOp(m, second)

\* PrevOp / NextOp: the neighbour in the map, 0 for nullptr.
PrevOp(m, op) ==
  IF op = 0 THEN 0
  ELSE LET iter == FindSequencedOp(m, op)
       IN IF iter = 1 THEN 0 ELSE m[iter - 1].op

NextOp(m, op) ==
  IF op = 0 THEN 0
  ELSE LET iter == FindSequencedOp(m, op)
       IN IF iter + 1 = Len(m) + 1 THEN 0 ELSE m[iter + 1].op

\* The map once op is inserted next to reference: op takes the sequence
\* number at the requested side of reference and the entries from there on
\* are renumbered one up.
InsertOp(m, op, reference, direction) ==
  LET r == FindSequencedOp(m, reference)
      first == IF direction = "kBefore" THEN r ELSE r + 1
      number == IF direction = "kBefore" THEN m[r].key ELSE m[r].key + 1
      shifted == [x \in 1..Len(m) |->
                    IF x >= first THEN [key |-> m[x].key + 1, op |-> m[x].op] ELSE m[x]]
  IN MultimapInsert(SubSeq(shifted, 1, first - 1), number, op)
       \o SubSeq(shifted, first, Len(m))

\* The map once the entry of op is erased.
EraseOp(m, op) == SelectSeq(m, LAMBDA entry : entry.op # op)

\* ImplicitSequenceNumber of the fby: the sequence number of the last
\* explicitly sequenced producer of its operands, -1 if there is none.
ImplicitSequenceNumber(m, f) ==
  IF f.init # 0 /\ FindSequencedOp(m, f.init) # 0
    THEN ExplicitSequenceNumber(m, f.init)
    ELSE -1

\* ImplicitlySequencedOps(sequence_number, ops)
ImplicitlySequencedOps(m, f, sequence_number) ==
  IF f.user # 0 /\ ImplicitSequenceNumber(m, f) = sequence_number
    THEN <<Fby>> ELSE <<>>

\* What iterating AllOps() yields: every explicitly sequenced operation,
\* followed by the operations implicitly sequenced after its number.
RECURSIVE AllOpsUpTo(_, _, _)
AllOpsUpTo(m, f, n) ==
  IF n = 0 THEN <<>>
  ELSE AllOpsUpTo(m, f, n - 1) \o <<m[n].op>> \o ImplicitlySequencedOps(m, f, m[n].key)

AllOps(m, f) == AllOpsUpTo(m, f, Len(m))

\* Variant of InferredHints that writes the sequence number stored in the map.
InferredHintsFromKeys(m, h) ==
  [op \in DOMAIN h |->
     IF FindSequencedOp(m, op) # 0 THEN ExplicitSequenceNumber(m, op) ELSE h[op]]

(***************************************************************************)
(* SequenceAnalysis::SairOpIterator.  compute_iterator_ is an index into    *)
(* the map, Len(m) + 1 for end().                                           *)
(***************************************************************************)
\* RepopulateImplicitlySequenced() once compute_iterator_ is set.
RepopulateImplicitlySequenced(m, f, compute_iterator_) ==
  [compute_iterator_ |-> compute_iterator_,
   implicitly_sequenced_ |->
     IF compute_iterator_ # Len(m) + 1
       THEN ImplicitlySequencedOps(m, f, m[compute_iterator_].key)
       ELSE <<>>,
   implicitly_sequenced_next_pos_ |-> 0]

\* SairOpIterator(sequence_analysis): AllOps().begin()
BeginIterator(m, f) == RepopulateImplicitlySequenced(m, f, 1)

\* SetEnd(): AllOps().end()
SetEnd(m) ==
  [compute_iterator_ |-> Len(m) + 1,
   implicitly_sequenced_ |-> <<>>,
   implicitly_sequenced_next_pos_ |-> 0]

\* operator++
Increment(m, f, it) ==
  IF it.implicitly_sequenced_next_pos_ = Len(it.implicitly_sequenced_)
    THEN RepopulateImplicitlySequenced(m, f, it.compute_iterator_ + 1)
    ELSE [it EXCEPT !.implicitly_sequenced_next_pos_ = @ + 1]

\* operator*
Dereference(m, it) ==
  IF it.implicitly_sequenced_next_pos_ = 0
    THEN m[it.compute_iterator_].op
    ELSE it.implicitly_sequenced_[it.implicitly_sequenced_next_pos_]

\* operator==
IteratorEquals(it, other) ==
  /\ it.compute_iterator_ = other.compute_iterator_
  /\ it.implicitly_sequenced_next_pos_ = other.implicitly_sequenced_next_pos_

\* AssignInferred: the sequence attribute of every sequenced operation
\* becomes its position in the order.
InferredHints(m, h) ==
  [op \in DOMAIN h |->
     IF FindSequencedOp(m, op) # 0 THEN FindSequencedOp(m, op) - 1 ELSE h[op]]

(***************************************************************************)
(* SequenceAnalysis as a state machine.                                     *)
(***************************************************************************)
\* The rematerialization part while a sequence analysis is under study.
NoRematerialization ==
  /\ body = <<>>
  /\ ops = <<>>
  /\ orig = <<>>
  /\ main_loops = <<>>
  /\ pending = {}
  /\ status = "idle"
  /\ done = {}
  /\ last = [op |-> 0, before |-> <<>>]

Pairs == {p \in SeqOps \X SeqOps : p[1] # p[2]}

\* Any program over SeqOps: any sequence attributes, any use-def edges
\* (cyclic ones included), at most one fby.
SeqInit ==
  /\ NoRematerialization
  /\ hints \in [SeqOps \cup {NewOp} -> -1..MaxHint]
  /\ hints[NewOp] = -1
  /\ edges \in SUBSET Pairs
  /\ fby \in {NoFby} \cup [init : {0} \cup SeqOps, value : SeqOps, user : SeqOps]
  /\ sequenced_ops_ = <<>>
  /\ analysis = "none"
  /\ calls = 0
  /\ hist = [call |-> "none"]
  /\ traversal = NoIter

\* SequenceAnalysis::Create(program): nullopt when Init fails.
Create ==
  /\ analysis = "none"
  /\ IF HasUseDefCycle(edges, fby)
       THEN /\ analysis' = "nullopt"
            /\ sequenced_ops_' = <<>>
       ELSE /\ analysis' = "created"
            /\ sequenced_ops_' = ComputeDefaultSequence(hints, edges, fby)
  /\ UNCHANGED <<hints, edges, fby, calls, hist, traversal>>
  /\ UNCHANGED remat_vars

SeqNext == Create

SeqSpec == SeqInit /\ [][SeqNext]_vars

\* The programs the sequence is edited on: acyclic, with and without a fby.
SequencedPrograms ==
  {[edges |-> {}, fby |-> NoFby],
   [edges |-> {<<1, 2>>, <<2, 3>>}, fby |-> NoFby],
   [edges |-> {<<3, 1>>}, fby |-> [init |-> 1, value |-> 3, user |-> 2]],
   [edges |-> {<<1, 3>>}, fby |-> [init |-> 0, value |-> 2, user |-> 2]]}

OrderInit ==
  /\ NoRematerialization
  /\ hints \in [SeqOps \cup {NewOp} -> -1..MaxHint]
  /\ hints[NewOp] = -1
  /\ \E program \in SequencedPrograms :
       /\ edges = program.edges
       /\ fby = program.fby
  /\ sequenced_ops_ = <<>>
  /\ analysis = "none"
  /\ calls = 0
  /\ hist = [call |-> "none"]
  /\ traversal = NoIter

\* AssignInferred().  hist keeps the order before the first call of a run of
\* consecutive calls and the attributes before the latest call.
AssignInferred ==
  /\ analysis = "created"
  /\ calls < MaxCalls
  /\ calls' = calls + 1
  /\ hints' = InferredHints(sequenced_ops_, hints)
  /\ hist' = [call |-> "AssignInferred",
              repeated |-> hist.call = "AssignInferred",
              before |-> IF hist.call = "AssignInferred" THEN hist.before
                         ELSE sequenced_ops_,
              hints |-> hints]
  /\ UNCHANGED <<edges, fby, sequenced_ops_, analysis, traversal>>
  /\ UNCHANGED remat_vars

\* Insert(op, reference, direction) of an operation that is not sequenced.
\* hist keeps the map before the call.
Insert(op, reference, direction) ==
  /\ analysis = "created"
  /\ calls < MaxCalls
  /\ FindSequencedOp(sequenced_ops_, op) = 0
  /\ FindSequencedOp(sequenced_ops_, reference) # 0
  /\ calls' = calls + 1
  /\ sequenced_ops_' = InsertOp(sequenced_ops_, op, reference, direction)
  /\ hist' = [call |-> "Insert", op |-> op, reference |-> reference,
              direction |-> direction, before |-> sequenced_ops_]
  /\ UNCHANGED <<hints, edges, fby, analysis, traversal>>
  /\ UNCHANGED remat_vars

\* Erase(op).  hist keeps the map before the Insert that this call undoes.
Erase(op) ==
  /\ analysis = "created"
  /\ calls < MaxCalls
  /\ FindSequencedOp(sequenced_ops_, op) # 0
  /\ calls' = calls + 1
  /\ sequenced_ops_' = EraseOp(sequenced_ops_, op)
  /\ hist' = IF hist.call = "Insert" /\ hist.op = op
               THEN [call |-> "InsertErase", op |-> op, before |-> hist.before]
               ELSE [call |-> "Erase", op |-> op]
  /\ UNCHANGED <<hints, edges, fby, analysis, traversal>>
  /\ UNCHANGED remat_vars

OrderNext ==
  \/ Create
  \/ AssignInferred
  \/ \E reference \in SeqOps, direction \in {"kBefore", "kAfter"} :
       Insert(NewOp, reference, direction)
  \/ \E op \in SeqOps \cup {NewOp} : Erase(op)

OrderSpec == OrderInit /\ [][OrderNext]_vars

(***************************************************************************)
(* for (SairOp op : AllOps()) ..., run twice on an analysis.                *)
(***************************************************************************)
\* The map with the operations of S under the sequence numbers number[op];
\* operations of equal number are in program order.
RECURSIVE MapOf(_, _, _)
MapOf(S, number, n) ==
  IF n = 0 THEN <<>>
  ELSE IF n \in S THEN MultimapInsert(MapOf(S, number, n - 1), number[n], n)
  ELSE MapOf(S, number, n - 1)

\* Any analysis MapType can hold over SeqOps: any subset of the operations,
\* any sequence numbers, shared ones included.
IterInit ==
  /\ NoRematerialization
  /\ hints = [op \in SeqOps \cup {NewOp} |-> -1]
  /\ \E program \in SequencedPrograms :
       /\ edges = program.edges
       /\ fby = program.fby
  /\ \E S \in SUBSET SeqOps, number \in [SeqOps -> 0..MaxKey] :
       sequenced_ops_ = MapOf(S, number, Cardinality(SeqOps))
  /\ analysis = "created"
  /\ calls = 0
  /\ hist = [call |-> "none"]
  /\ traversal = NoIter

\* auto it = AllOps().begin(): a loop starts; at most two loops are run.
AllOpsBegin ==
  /\ analysis = "created"
  /\ traversal.state = "idle"
  /\ traversal.pass < 2
  /\ traversal' = [state |-> "running",
              pass |-> traversal.pass + 1,
              it |-> BeginIterator(sequenced_ops_, fby),
              visited |-> <<>>,
              first |-> IF traversal.pass = 0 THEN <<>> ELSE traversal.visited]
  /\ UNCHANGED <<hints, edges, fby, sequenced_ops_, analysis, calls, hist>>
  /\ UNCHANGED remat_vars

\* it != end: the body takes *it, then ++it.
AllOpsNext ==
  /\ traversal.state = "running"
  /\ ~IteratorEquals(traversal.it, SetEnd(sequenced_ops_))
  /\ traversal' = [traversal EXCEPT !.visited = Append(@, Dereference(sequenced_ops_, traversal.it)),
                          !.it = Increment(sequenced_ops_, fby, traversal.it)]
  /\ UNCHANGED <<hints, edges, fby, sequenced_ops_, analysis, calls, hist>>
  /\ UNCHANGED remat_vars

\* it == end: the loop is over.
AllOpsEnd ==
  /\ traversal.state = "running"
  /\ IteratorEquals(traversal.it, SetEnd(sequenced_ops_))
  /\ traversal' = [traversal EXCEPT !.state = "idle"]
  /\ UNCHANGED <<hints, edges, fby, sequenced_ops_, analysis, calls, hist>>
  /\ UNCHANGED remat_vars

IterNext == AllOpsBegin \/ AllOpsNext \/ AllOpsEnd

IterSpec == IterInit /\ [][IterNext]_vars

(***************************************************************************)
(* The programs the pass is run on.                                         *)
(***************************************************************************)
\* Shapes of n dimensions: all dimensions independent, or every dimension
\* past the first depending on the one before it.
Shapes(n) ==
  {[d \in 1..n |-> <<>>], [d \in 1..n |-> IF d = 1 THEN <<>> ELSE <<d - 2>>]}

\* Loop nests over the given names for an operation of ndims dimensions: names
\* are not repeated, no two concrete entries share a dimension, and an entry is
\* pending (-1) only when may_remat. The step of a concrete entry is
\* step_base plus its dimension.
LoopNests(names, ndims, may_remat, step_base) ==
  LET binds == (0..(ndims - 1)) \cup (IF may_remat THEN {-1} ELSE {})
      Entry(n, d) == IF d = -1 THEN RematLoop(n) ELSE ConcreteLoop(n, d, step_base + d)
      NestsOfLen(len) ==
        {[x \in 1..len |-> Entry(nd[1][x], nd[2][x])] :
           nd \in {f \in SeqsOfLen(names, len) : Injective(f)}
                    \X {g \in SeqsOfLen(binds, len) :
                          \A x, y \in 1..len : (x # y /\ g[x] # -1) => g[x] # g[y]}}
  IN UNION {NestsOfLen(len) : len \in 0..Cardinality(names)}

\* The operation that materializes loops: a sair.map over nd dimensions.
Definer(nd, shape, loop_nest) ==
  [kind |-> "map",
   parallel_domain |-> [d \in 1..nd |-> d],
   reduction_domain |-> <<>>,
   shape |-> shape,
   loop_nest |-> loop_nest,
   inputs |-> <<>>,
   results |-> <<[shape |-> shape, elem |-> "f32"]>>,
   memory_space |-> <<0>>,
   body |-> [d \in 1..nd |-> "index"]]

\* The operation with pending loops: np parallel and nr reduction dimensions,
\* one operand defined outside the modelled operations, nres results.
Target(kind, np, nr, shape, loop_nest, nres, ms) ==
  [kind |-> kind,
   parallel_domain |-> [d \in 1..np |-> 10 + d],
   reduction_domain |-> [d \in 1..nr |-> 20 + d],
   shape |-> shape,
   loop_nest |-> loop_nest,
   inputs |-> <<[value |-> <<0, 0>>, pattern |-> GetIdentity(np + nr)]>>,
   results |-> [r \in 1..nres |-> [shape |-> Prefix(shape, np),
                                   elem |-> IF r = 1 THEN "f32" ELSE "i32"]],
   memory_space |-> [r \in 1..nres |-> ms],
   body |-> IF kind = "copy" THEN <<>>
            ELSE [d \in 1..(np + nr) |-> "index"] \o <<"value">>]

\* The operation that reads every result of the target, over the target's
\* parallel domain.
Consumer(target, loop_nest) ==
  [kind |-> "map",
   parallel_domain |-> target.parallel_domain,
   reduction_domain |-> <<>>,
   shape |-> Prefix(target.shape, Len(target.parallel_domain)),
   loop_nest |-> loop_nest,
   inputs |-> [r \in 1..Len(target.results) |->
                 [value |-> <<2, r - 1>>,
                  pattern |-> GetIdentity(Len(target.parallel_domain))]],
   results |-> <<[shape |-> Prefix(target.shape, Len(target.parallel_domain)),
                  elem |-> "f32"]>>,
   memory_space |-> <<0>>,
   body |-> [d \in 1..Len(target.parallel_domain) |-> "index"]
              \o [r \in 1..Len(target.results) |-> "value"]]

TargetsOf(kind, np, nr) ==
  {Target(kind, np, nr, shape, ln, nres, ms) :
     shape \in Shapes(np + nr),
     ln \in LoopNests(Names, np + nr, TRUE, 1),
     nres \in 1..(IF kind \in {"map", "map_reduce"} THEN MaxResults ELSE 1),
     ms \in (IF kind = "other" THEN {0} ELSE {0, 1})}

Targets ==
  UNION {TargetsOf(c[1], c[2], c[3]) :
           c \in {d \in {"copy", "map", "map_reduce", "other"} \X (0..MaxDims) \X (0..MaxDims) :
                    /\ d[2] + d[3] <= MaxDims
                    /\ d[3] = 0 \/ d[1] = "map_reduce"}}

\* Loop nests of the materializing operation: "i" on the first dimension, "j"
\* on the second or on the last one, in either order, or alone.
DefinerNests(nd) ==
  {<<>>,
   <<ConcreteLoop("i", 0, 1)>>,
   <<ConcreteLoop("i", 0, 1), ConcreteLoop("j", 1, 2)>>,
   <<ConcreteLoop("j", 1, 2), ConcreteLoop("i", 0, 1)>>,
   <<ConcreteLoop("j", 1, 2)>>,
   <<ConcreteLoop("j", nd - 1, nd)>>}

Definers ==
  {Definer(MaxDefDims, shape, ln) :
     shape \in Shapes(MaxDefDims), ln \in DefinerNests(MaxDefDims)}

\* The consumer may have the loop "i" pending, so that a pending operation may
\* read the result of another pending operation.
Consumers(target) == {Consumer(target, ln) : ln \in {<<>>, <<RematLoop("i")>>}}

(***************************************************************************)
(* RematerializeInProgram as a state machine.                               *)
(***************************************************************************)
RematInit ==
  /\ body = <<1, 2, 3>>
  /\ \E definer \in Definers, target \in Targets :
       \E consumer \in Consumers(target) :
         ops = [q \in 1..3 |-> CASE q = 1 -> definer [] q = 2 -> target [] q = 3 -> consumer]
  /\ orig = ops
  /\ main_loops = <<>>
  /\ pending = {}
  /\ status = "start"
  /\ done = {}
  /\ last = [op |-> 0, before |-> <<>>]
  /\ NoSequenceAnalysis

\* The walk that collects main_loops and pending_rematerializations.
Collect ==
  /\ status = "start"
  /\ IF WalkOutOfBounds(body, ops)
       THEN /\ status' \in {"aborted", "undefined"}
            /\ UNCHANGED <<main_loops, pending>>
       ELSE /\ main_loops' = CollectMainLoops(body, ops)
            /\ pending' = CollectPending(body, ops)
            /\ status' = "rewriting"
  /\ UNCHANGED <<body, ops, orig, done, last>>
  /\ UNCHANGED seq_vars

\* One iteration of the loop over pending_rematerializations: the call
\* Rematerialize(o, main_loops). llvm_unreachable, a failed assert and an
\* out-of-range index end the process ("aborted") in a build with assertions
\* and are undefined behaviour ("undefined") in a build without.
Rematerialize(o) ==
  /\ status = "rewriting"
  /\ o \in pending
  /\ pending' = pending \ {o}
  /\ last' = [op |-> o, before |-> ops[o]]
  /\ LET op == ops[o] IN
       IF op.kind \notin {"copy", "map", "map_reduce"}
         THEN /\ status' \in {"aborted", "undefined"}
              /\ UNCHANGED <<body, ops, done>>
       ELSE IF MissingBounds(op, main_loops)
         THEN /\ status' \in {"aborted", "undefined"}
              /\ UNCHANGED <<body, ops, done>>
       ELSE IF MissingDependency(op, main_loops)
         THEN /\ status' \in {"aborted", "undefined"}
              /\ UNCHANGED <<body, ops, done>>
       ELSE IF op.kind \notin SupportedKinds
         THEN /\ status' = "failure"
              /\ UNCHANGED <<body, ops, done>>
       ELSE IF SetMemorySpaceOutOfRange(op)
         THEN /\ status' \in {"aborted", "undefined"}
              /\ UNCHANGED <<body, ops, done>>
       ELSE /\ ops' = RematerializedOps(ops, main_loops, o)
            /\ body' = RematerializedBody(body, ops, o)
            /\ done' = done \cup {o}
            /\ status' = "rewriting"
  /\ UNCHANGED <<main_loops, orig>>
  /\ UNCHANGED seq_vars

\* The loop over pending_rematerializations is over: success.
Finish ==
  /\ status = "rewriting"
  /\ pending = {}
  /\ status' = "success"
  /\ UNCHANGED <<body, ops, main_loops, pending, orig, done, last>>
  /\ UNCHANGED seq_vars

RematNext == Collect \/ (\E o \in pending : Rematerialize(o)) \/ Finish

Spec == RematInit /\ [][RematNext]_vars

(***************************************************************************)
(* Properties of Rematerialize.  For an operation o in done, orig[o] is the *)
(* operation before the pass and ops[NewOpId(o)] its replacement.           *)
(***************************************************************************)
\* The pending loop names of op, in loop-nest order.
PendingNames(op) ==
  LET marked == SelectSeq(op.loop_nest, LAMBDA loop : loop.remat)
  IN [m \in 1..Len(marked) |-> marked[m].name]

\* The loop_nest entry of op with the given name.
EntryOf(op, name) ==
  op.loop_nest[CHOOSE x \in DOMAIN op.loop_nest : op.loop_nest[x].name = name]

\* The operation that holds today the operands operation q had before the
\* pass: q itself, or its replacement once q was rematerialized.
Current(q) == IF q \in DOMAIN ops THEN ops[q] ELSE ops[NewOpId(q)]

\* C1: after Rematerialize succeeded on a copy, map or map-reduce operation
\* with p parallel dimensions, the m-th pending entry of its loop nest
\* (m = 0..k-1) is a concrete iterator on dimension p+m with the step of that
\* loop's LoopBounds, and dimension p+m of the replacement's domain is the
\* range of that LoopBounds.
C1_PendingLoopsMaterialized ==
  \A o \in done :
    LET p == Len(orig[o].parallel_domain)
        names == PendingNames(orig[o])
        new == ops[NewOpId(o)]
    IN \A m \in 0..(Len(names) - 1) :
         LET bounds == main_loops[names[m + 1]]
             entry == EntryOf(new, names[m + 1])
         IN /\ ~entry.remat
            /\ entry.dim = p + m
            /\ entry.step = bounds.step
            /\ Domain(new)[p + m + 1] = bounds.range

\* A map-reduce with a parallel dimension and two pending loops of different
\* ranges was rematerialized.
C1_Witness ==
  \E o \in done :
    /\ orig[o].kind = "map_reduce"
    /\ Len(orig[o].parallel_domain) >= 1
    /\ Len(PendingNames(orig[o])) = 2
    /\ main_loops["i"].range # main_loops["j"].range

\* C2: after Rematerialize succeeded on o, o is not in the program and nothing
\* reads a result of o; every operand that read result i of o reads the result
\* of the projection made for i; that projection has the type result i of o
\* had, keeps the p parallel dimensions and projects out the k inserted
\* dimensions p..p+k-1 of result i of the replacement.
C2_ErasedAndUsesRedirected ==
  \A o \in done :
    LET p == Len(orig[o].parallel_domain)
        k == Len(PendingNames(orig[o]))
        new == ops[NewOpId(o)]
    IN /\ o \notin DOMAIN ops
       /\ o \notin Range(body)
       /\ \A q \in DOMAIN ops : \A x \in DOMAIN ops[q].inputs :
            ops[q].inputs[x].value[1] # o
       /\ \A q \in DOMAIN orig : \A x \in DOMAIN orig[q].inputs :
            orig[q].inputs[x].value[1] = o =>
              Current(q).inputs[x].value = <<ProjId(o, orig[q].inputs[x].value[2]), 0>>
       /\ \A i \in 0..(Len(orig[o].results) - 1) :
            LET proj == ops[ProjId(o, i)]
            IN /\ proj.results = <<orig[o].results[i + 1]>>
               /\ proj.inputs[1].value = <<NewOpId(o), i>>
               /\ proj.parallel_domain = SubSeq(Domain(new), 1, p)
               /\ proj.reduction_domain = SubSeq(Domain(new), p + 1, p + k)

\* An operation with two results of different types, both read by another
\* operation, was rematerialized.
C2_Witness ==
  \E o \in done :
    /\ Len(orig[o].results) = 2
    /\ orig[o].results[1] # orig[o].results[2]
    /\ \E q \in DOMAIN orig : \E x \in DOMAIN orig[q].inputs :
         orig[q].inputs[x].value = <<o, 1>>

\* C3: the dependency pattern of the dimension inserted for a pending loop
\* lists, for the names its LoopBounds depends on, the dimensions those names
\* are bound to in the loop nest of the replacement; with pending loops "i"
\* then "j" and "j" depending on "i" only, "i" is on dimension P, "j" on P+1
\* and the dimension inserted for "j" depends on {P} exactly.
C3_InsertedDimensionDependencies ==
  \A o \in done :
    LET p == Len(orig[o].parallel_domain)
        names == PendingNames(orig[o])
        new == ops[NewOpId(o)]
    IN /\ \A m \in 0..(Len(names) - 1) :
            LET dependent_on == main_loops[names[m + 1]].dependent_on
                pattern == new.shape[p + m + 1]
            IN /\ Len(pattern) = Len(dependent_on)
               /\ \A x \in DOMAIN dependent_on :
                    pattern[x] = EntryOf(new, dependent_on[x]).dim
       /\ (names = <<"i", "j">> /\ main_loops["j"].dependent_on = <<"i">>) =>
            /\ EntryOf(new, "i").dim = p
            /\ EntryOf(new, "j").dim = p + 1
            /\ DependencyMask(new.shape[p + 2]) = {p}

\* Pending loops "i" then "j", "j" depending on "i" only, past at least one
\* parallel dimension.
C3_Witness ==
  \E o \in done :
    /\ PendingNames(orig[o]) = <<"i", "j">>
    /\ main_loops["j"].dependent_on = <<"i">>
    /\ Len(orig[o].parallel_domain) >= 1

\* C4: when Rematerialize is called on a pending operation of a kind other
\* than copy, map or map-reduce, the transform returns failure and the
\* operation is as it was: still in the program, no replacement and no
\* projection created.
C4_UnsupportedKindFails ==
  (last.op # 0 /\ last.before.kind \notin {"copy", "map", "map_reduce"}) =>
    /\ status = "failure"
    /\ last.op \in DOMAIN ops
    /\ ops[last.op] = last.before
    /\ NewOpId(last.op) \notin DOMAIN ops
    /\ \A i \in 0..(Len(last.before.results) - 1) : ProjId(last.op, i) \notin DOMAIN ops

\* C5: when Rematerialize is called on an operation with a pending loop that
\* has no collected bounds, or whose bounds depend on a name that is not in
\* the loop nest of the operation, the transform returns failure.
C5_MissingBoundsFail ==
  (/\ last.op # 0
   /\ last.before.kind \in {"copy", "map", "map_reduce"}
   /\ \/ MissingBounds(last.before, main_loops)
      \/ MissingDependency(last.before, main_loops)) =>
    status = "failure"

(***************************************************************************)
(* Properties of SequenceAnalysis.                                          *)
(***************************************************************************)
\* b depends on a: b reads a result of a, directly or through the init
\* operand of the fby.
DependsOnOp(a, b) == <<a, b>> \in edges \/ (fby.user = b /\ fby.init = a)

\* The dependency graph without the prior-iteration read has no cycle: its
\* operations can be numbered so that every operation has a larger number
\* than the operations it depends on.
Acyclic ==
  \E rank \in [SeqOps -> 1..Cardinality(SeqOps)] :
    \A a, b \in SeqOps : DependsOnOp(a, b) => rank[a] < rank[b]

\* a must come before b by a chain of dependencies and of smaller-hint-first
\* steps.
HintOrDependency(a, b) ==
  DependsOnOp(a, b) \/ (hints[a] # -1 /\ hints[b] # -1 /\ hints[a] < hints[b])

RECURSIVE OrderedAfter(_)
OrderedAfter(S) ==
  LET T == S \cup {b \in SeqOps : \E a \in S : HintOrDependency(a, b)}
  IN IF T = S THEN S ELSE OrderedAfter(T)

Ordered(a, b) == b \in OrderedAfter({c \in SeqOps : HintOrDependency(a, c)})

\* The sequence attributes contradict neither each other nor the dependencies.
ConsistentHints == \A a \in SeqOps : ~Ordered(a, a)

\* C6: right after Create succeeded, an operation that reads a result of
\* another one through a direct edge is after it and not before it, whatever
\* the sequence attributes are.
C6_ProducerBeforeConsumer ==
  (analysis = "created" /\ hist.call = "none") =>
    \A a, b \in SeqOps :
      <<a, b>> \in edges =>
        /\ IsBefore(sequenced_ops_, a, b)
        /\ ~IsBefore(sequenced_ops_, b, a)

\* Create succeeded on a program where a consumer comes first in program
\* order and has the smaller sequence attribute, and two operations share one.
C6_Witness ==
  /\ analysis = "created"
  /\ hist.call = "none"
  /\ \E a, b \in SeqOps :
       <<a, b>> \in edges /\ b < a /\ hints[b] # -1 /\ hints[b] < hints[a]
  /\ \E a, b \in SeqOps : a # b /\ hints[a] # -1 /\ hints[a] = hints[b]

\* C7: Create returns an analysis exactly when the dependency graph without
\* the prior-iteration reads is acyclic; when it returns nullopt nothing is
\* sequenced, when it returns an analysis every compute operation is
\* sequenced once.
C7_CreateIffAcyclic ==
  analysis # "none" =>
    /\ (analysis = "created") <=> Acyclic
    /\ analysis = "nullopt" => sequenced_ops_ = <<>>
    /\ (analysis = "created" /\ hist.call = "none") =>
         /\ Range(Ops(sequenced_ops_)) = SeqOps
         /\ Len(sequenced_ops_) = Cardinality(SeqOps)

\* Create succeeded on a program with a cycle through the prior-iteration
\* read of the fby: the user of the fby produces the value the fby reads.
C7_Witness ==
  /\ analysis = "created"
  /\ hist.call = "none"
  /\ fby.user # 0
  /\ fby.init # 0
  /\ (fby.value = fby.user \/ <<fby.user, fby.value>> \in edges)
  /\ edges # {}

C9_AssignInferredIdempotent ==
  hist.call = "AssignInferred" =>
    /\ \A x \in DOMAIN sequenced_ops_ : hints[sequenced_ops_[x].op] = x - 1
    /\ hist.repeated => hints = hist.hints
    /\ Ops(sequenced_ops_) = Ops(hist.before)
    /\ AllOps(sequenced_ops_, fby) = AllOps(hist.before, fby)

\* AssignInferred was called twice in succession on a sequence whose numbers
\* are not contiguous and that has an implicitly sequenced fby.
C9_Witness ==
  /\ hist.call = "AssignInferred"
  /\ hist.repeated
  /\ \E x \in DOMAIN sequenced_ops_ : sequenced_ops_[x].key # x - 1
  /\ Fby \in Range(AllOps(sequenced_ops_, fby))

C11_AllOpsVisitsEachOnce ==
  (traversal.state = "idle" /\ traversal.pass >= 1) =>
    LET visited == traversal.visited
    IN /\ SelectSeq(visited, LAMBDA op : op # Fby) = Ops(sequenced_ops_)
       /\ \A x, y \in DOMAIN visited : visited[x] = visited[y] => x = y
       /\ Fby \in Range(visited) <=>
            (fby.user # 0 /\ ImplicitSequenceNumber(sequenced_ops_, fby) # -1)
       /\ \A x \in DOMAIN visited :
            visited[x] = Fby =>
              /\ x > 1
              /\ ExplicitSequenceNumber(sequenced_ops_, visited[x - 1])
                   = ImplicitSequenceNumber(sequenced_ops_, fby)
       /\ traversal.pass = 2 => visited = traversal.first

(***************************************************************************)
(* Properties of the collection walk.                                       *)
(***************************************************************************)
\* The operations of the program before the pass, in program order, in which
\* the name has a concrete iterator.
ConcreteOccurrences(name) ==
  {q \in DOMAIN orig :
     \E x \in DOMAIN orig[q].loop_nest :
       orig[q].loop_nest[x].name = name /\ ~orig[q].loop_nest[x].remat}

\* The names of the loops of op that are concrete on a dimension the
\* dimension dim of op depends on.
DependeeNames(op, dim) ==
  {op.loop_nest[x].name :
     x \in {y \in DOMAIN op.loop_nest :
              /\ ~op.loop_nest[y].remat
              /\ op.loop_nest[y].dim \in DependencyMask(op.shape[dim + 1])}}

\* C12: once the walk is over, every name with a concrete iterator has bounds
\* taken from the first operation in program order where it is concrete, and
\* their dependent_on is exactly the names of the loops of that operation
\* that are bound to a dimension in the dependency set of the dimension of
\* the name.
C12_CollectedDependencies ==
  status # "start" =>
    \A name \in Names :
      ConcreteOccurrences(name) # {} =>
        LET X == orig[CHOOSE q \in ConcreteOccurrences(name) :
                        \A r \in ConcreteOccurrences(name) : q <= r]
            entry == EntryOf(X, name)
        IN /\ name \in DOMAIN main_loops
           /\ main_loops[name].range = Domain(X)[entry.dim + 1]
           /\ main_loops[name].step = entry.step
           /\ Range(main_loops[name].dependent_on) = DependeeNames(X, entry.dim)

(***************************************************************************)
(* Further properties of Rematerialize.                                     *)
(***************************************************************************)
\* The latest call of Rematerialize was on an operation the rewrite handles:
\* a supported kind, bounds for every pending loop, every dependee in the
\* loop nest.
LastCallRewritable ==
  /\ last.op # 0
  /\ last.before.kind \in {"copy", "map", "map_reduce"}
  /\ ~MissingBounds(last.before, main_loops)
  /\ ~MissingDependency(last.before, main_loops)

\* C13: Rematerialize of such an operation creates, for every result index i,
\* a projection whose single result carries the memory space annotation of
\* result i of the operation, and none if result i has none.
C13_MemorySpaceOnProjections ==
  LastCallRewritable =>
    /\ last.op \in done
    /\ \A i \in 0..(Len(last.before.results) - 1) :
         /\ ProjId(last.op, i) \in DOMAIN ops
         /\ ops[ProjId(last.op, i)].memory_space = <<last.before.memory_space[i + 1]>>

\* The program after Rematerialize was applied to the operations of order,
\* one after the other.
RECURSIVE RematerializedInOrder(_, _, _, _)
RematerializedInOrder(order, b, o_map, ml) ==
  IF order = <<>> THEN [body |-> b, ops |-> o_map]
  ELSE RematerializedInOrder(Tail(order),
                             RematerializedBody(b, o_map, Head(order)),
                             RematerializedOps(o_map, ml, Head(order)), ml)

\* C14: the bounds table is what the walk collected, whatever was rewritten
\* since; when RematerializeInProgram succeeds, the program is the one that
\* processing the pending operations in program order gives, whatever the
\* order they were processed in.
C14_OrderIndependent ==
  LET before == Indices(Len(orig))
  IN /\ (status \in {"rewriting", "success"} \/ last.op # 0) =>
          main_loops = CollectMainLoops(before, orig)
     /\ status = "success" =>
          LET expected == RematerializedInOrder(SortedSeq(CollectPending(before, orig)),
                                                before, orig, main_loops)
          IN /\ ops = expected.ops
             /\ body = expected.body

\* RematerializeInProgram succeeded after it processed a pending operation
\* before the pending operation whose results it reads.
C14_Witness ==
  /\ status = "success"
  /\ Cardinality(done) = 2
  /\ \E q \in done : \E x \in DOMAIN orig[q].inputs :
       /\ orig[q].inputs[x].value[1] = last.op
       /\ q # last.op

\* C15: in the replacement of an operation with p parallel dimensions and k
\* pending loops, the loop nest names the same loops in the same order; every
\* materialized loop-nest entry, every operand access pattern of a map-reduce
\* and every dependency of a trailing shape dimension that named a dimension
\* d >= p names d + k, and names d unchanged if d < p; no materialized entry
\* is on the dimension of a newly assigned pending entry.
C15_ConsistentShift ==
  \A o \in done :
    LET op == orig[o]
        new == ops[NewOpId(o)]
        p == Len(op.parallel_domain)
        k == Len(PendingNames(op))
        Shifted(d) == IF d >= p THEN d + k ELSE d
        ShiftedPattern(pattern) == [y \in DOMAIN pattern |-> Shifted(pattern[y])]
    IN /\ Len(new.loop_nest) = Len(op.loop_nest)
       /\ \A x \in DOMAIN op.loop_nest :
            /\ new.loop_nest[x].name = op.loop_nest[x].name
            /\ ~op.loop_nest[x].remat =>
                 new.loop_nest[x] = [op.loop_nest[x] EXCEPT !.dim = Shifted(@)]
       /\ \A x, y \in DOMAIN op.loop_nest :
            (op.loop_nest[x].remat /\ ~op.loop_nest[y].remat) =>
              new.loop_nest[x].dim # new.loop_nest[y].dim
       /\ op.kind = "map_reduce" =>
            /\ Len(new.inputs) = Len(op.inputs)
            /\ \A x \in DOMAIN op.inputs :
                 new.inputs[x].pattern = ShiftedPattern(op.inputs[x].pattern)
       /\ Len(new.shape) = Len(op.shape) + k
       /\ \A t \in 1..p : new.shape[t] = op.shape[t]
       /\ \A t \in (p + 1)..Len(op.shape) :
            new.shape[t + k] = ShiftedPattern(op.shape[t])

\* A map-reduce was rematerialized that had a materialized loop on a
\* reduction dimension, an operand pattern over parallel and reduction
\* dimensions and a reduction dimension that depends on another dimension.
C15_Witness ==
  \E o \in done :
    LET op == orig[o]
        p == Len(op.parallel_domain)
    IN /\ op.kind = "map_reduce"
       /\ \E x \in DOMAIN op.loop_nest : ~op.loop_nest[x].remat /\ op.loop_nest[x].dim >= p
       /\ \E x \in DOMAIN op.inputs : \E y, z \in DOMAIN op.inputs[x].pattern :
            op.inputs[x].pattern[y] < p /\ op.inputs[x].pattern[z] >= p
       /\ \E t \in (p + 1)..Len(op.shape) : op.shape[t] # <<>>

\* C16: in the shape of a replacement operation, the dimension inserted at
\* position q depends on earlier dimensions only: every index of its
\* dependency pattern is smaller than q.
C16_InsertedDependOnEarlier ==
  \A o \in done :
    LET p == Len(orig[o].parallel_domain)
        k == Len(PendingNames(orig[o]))
        new == ops[NewOpId(o)]
    IN \A q \in p..(p + k - 1) :
         \A index \in DependencyMask(new.shape[q + 1]) : index < q

====
